---- MODULE Spec2Model ----
(***************************************************************************)
(* CryptoSleuth API (src/main.py): the heuristic risk scorer, the flag     *)
(* extractor and the two endpoints trace_wallet and generate_report, with  *)
(* the document store they write to and read from.                         *)
(*                                                                         *)
(* Strings are sequences of one-character strings, so that strip, lower,   *)
(* startswith, endswith, `in` and len are computed, not assumed.           *)
(* Wall-clock values (last_scored_at, timestamp, generated_at) are left    *)
(* out of the records: no decision in the code reads them.                 *)
(***************************************************************************)
EXTENDS Integers, Sequences, FiniteSets, TLC

(***************************************************************************)
(* Bounds of the model.                                                    *)
(***************************************************************************)
\* longest run of filler characters inside a generated address
MaxPad == 35
\* longest flag list handed to compute_risk directly
MaxFlags == 3
\* requests the clients issue in one run of the service
MaxRequests == 3

(***************************************************************************)
(* Strings.                                                                *)
(***************************************************************************)
UpperLetters ==
  << "A","B","C","D","E","F","G","H","I","J","K","L","M",
     "N","O","P","Q","R","S","T","U","V","W","X","Y","Z" >>

LowerLetters ==
  << "a","b","c","d","e","f","g","h","i","j","k","l","m",
     "n","o","p","q","r","s","t","u","v","w","x","y","z" >>

\* characters str.strip() removes
Whitespace == { " ", "\t", "\n", "\r", "\f" }

LowerChar(c) ==
  IF \E i \in 1..Len(UpperLetters) : UpperLetters[i] = c
  THEN LowerLetters[CHOOSE i \in 1..Len(UpperLetters) : UpperLetters[i] = c]
  ELSE c

\* str.lower()
lower(s) == [i \in 1..Len(s) |-> LowerChar(s[i])]

RECURSIVE lstrip(_)
lstrip(s) ==
  IF s # << >> /\ Head(s) \in Whitespace THEN lstrip(Tail(s)) ELSE s

RECURSIVE rstrip(_)
rstrip(s) ==
  IF s # << >> /\ s[Len(s)] \in Whitespace
  THEN rstrip(SubSeq(s, 1, Len(s) - 1))
  ELSE s

\* str.strip()
strip(s) == rstrip(lstrip(s))

\* s.startswith(p)
startswith(s, p) == Len(s) >= Len(p) /\ SubSeq(s, 1, Len(p)) = p

\* s.endswith(p)
endswith(s, p) ==
  Len(s) >= Len(p) /\ SubSeq(s, Len(s) - Len(p) + 1, Len(s)) = p

\* p in s
contains(s, p) ==
  \E i \in 1..(Len(s) - Len(p) + 1) : SubSeq(s, i, i + Len(p) - 1) = p

\* s[:n]
Prefix(s, n) == SubSeq(s, 1, IF Len(s) < n THEN Len(s) ELSE n)

\* the literals the extractor looks for
S_bad      == << "b","a","d" >>
S_0xdead   == << "0","x","d","e","a","d" >>
S_mix      == << "m","i","x" >>
S_tornado  == << "t","o","r","n","a","d","o" >>
S_bc1dark  == << "b","c","1","d","a","r","k" >>
S_hydra    == << "h","y","d","r","a" >>
S_coinbase == << "c","o","i","n","b","a","s","e" >>
S_binance  == << "b","i","n","a","n","c","e" >>

(***************************************************************************)
(* Heuristic risk scoring.                                                 *)
(***************************************************************************)
RISK_RULES ==
  << [id |-> "darknet_link",  impact |-> 70],
     [id |-> "mixer_use",     impact |-> 50],
     [id |-> "hack_proceeds", impact |-> 90],
     [id |-> "large_tx",      impact |-> 30],
     [id |-> "structuring",   impact |-> 40],
     [id |-> "hodl",          impact |-> 0 - 10],
     [id |-> "kyc_exchange",  impact |-> 0 - 20] >>

Min(a, b) == IF a < b THEN a ELSE b
Max(a, b) == IF a > b THEN a ELSE b

\* variant: the lower bound forgotten
clamp_nofloor(v, lo, hi) == Min(hi, v)

\* clamp(v, lo, hi) = max(lo, min(hi, v))
clamp(v, lo, hi) == Max(lo, Min(hi, v))

\* next((r for r in RISK_RULES if r["id"] == f), None): the impact of the
\* first rule with that id, 0 when there is none (the `if rule` test)
RuleImpact(f) ==
  IF \E i \in 1..Len(RISK_RULES) : RISK_RULES[i].id = f
  THEN LET k == CHOOSE i \in 1..Len(RISK_RULES) :
                  /\ RISK_RULES[i].id = f
                  /\ \A j \in 1..(i - 1) : RISK_RULES[j].id # f
       IN  RISK_RULES[k].impact
  ELSE 0

\* variant: the clamp applied inside the loop
RECURSIVE SumImpacts_stepclamp(_, _)
SumImpacts_stepclamp(flags, score) ==
  IF flags = << >> THEN score
  ELSE SumImpacts_stepclamp(Tail(flags),
                            clamp(score + RuleImpact(Head(flags)), 0, 100))

\* the loop of compute_risk: score after the flags have been walked
RECURSIVE SumImpacts(_, _)
SumImpacts(flags, score) ==
  IF flags = << >> THEN score
  ELSE SumImpacts(Tail(flags), score + RuleImpact(Head(flags)))

compute_risk(flags) == clamp(SumImpacts(flags, 0), 0, 100)

(***************************************************************************)
(* Flag extractor: the body of trace_wallet between the validation and the *)
(* call of compute_risk.  `address` is the trimmed address.                *)
(***************************************************************************)
\* variant: the hack_proceeds test reads the address before lowercasing
extract_flags_casebug(address) ==
  LET addr_lower == lower(address)
      f0 == << >>
      f1 == IF endswith(address, S_bad) \/ startswith(address, S_0xdead)
            THEN Append(f0, "hack_proceeds") ELSE f0
      f2 == IF contains(addr_lower, S_mix) \/ contains(addr_lower, S_tornado)
            THEN Append(f1, "mixer_use") ELSE f1
      f3 == IF startswith(addr_lower, S_bc1dark) \/ contains(addr_lower, S_hydra)
            THEN Append(f2, "darknet_link") ELSE f2
      f4 == IF Len(address) % 7 = 0 THEN Append(f3, "large_tx") ELSE f3
      f5 == IF Len(address) % 5 = 0 THEN Append(f4, "structuring") ELSE f4
      f6 == IF contains(addr_lower, S_coinbase) \/ contains(addr_lower, S_binance)
            THEN Append(f5, "kyc_exchange") ELSE f5
      f7 == IF Len(address) % 11 = 0 THEN Append(f6, "hodl") ELSE f6
  IN  f7

extract_flags(address) ==
  LET addr_lower == lower(address)
      f0 == << >>
      f1 == IF endswith(addr_lower, S_bad) \/ startswith(addr_lower, S_0xdead)
            THEN Append(f0, "hack_proceeds") ELSE f0
      f2 == IF contains(addr_lower, S_mix) \/ contains(addr_lower, S_tornado)
            THEN Append(f1, "mixer_use") ELSE f1
      f3 == IF startswith(addr_lower, S_bc1dark) \/ contains(addr_lower, S_hydra)
            THEN Append(f2, "darknet_link") ELSE f2
      f4 == IF Len(address) % 7 = 0 THEN Append(f3, "large_tx") ELSE f3
      f5 == IF Len(address) % 5 = 0 THEN Append(f4, "structuring") ELSE f4
      f6 == IF contains(addr_lower, S_coinbase) \/ contains(addr_lower, S_binance)
            THEN Append(f5, "kyc_exchange") ELSE f5
      f7 == IF Len(address) % 11 = 0 THEN Append(f6, "hodl") ELSE f6
  IN  f7

(***************************************************************************)
(* Demo transactions.  An amount is kept as a whole number of              *)
(* ten-thousandths, the unit round(x, 4) rounds to.                        *)
(***************************************************************************)
\* range(6)
TxCount == 6

\* 10 ** 4, the digits kept by round(x, 4)
AmountScale == 10000

Digits == << "0","1","2","3","4","5","6","7","8","9" >>

\* str(i) for a one-digit i
Digit(i) == Digits[i + 1]

\* n / d rounded to an integer, halves to the even neighbour (Python round)
RoundDiv(n, d) ==
  LET q == n \div d
      r == n % d
  IN  IF 2 * r < d THEN q
      ELSE IF 2 * r > d THEN q + 1
      ELSE IF q % 2 = 0 THEN q ELSE q + 1

\* variant: 0.5 * i
tx_amount_from_zero(i) == RoundDiv(i * AmountScale, 2)

\* round(0.5 * (i + 1), 4), in ten-thousandths
tx_amount(i) == RoundDiv((i + 1) * AmountScale, 2)

\* f"peer-{i}"
peer(i) == << "p","e","e","r","-", Digit(i) >>

\* [f for f in flags if (i + len(address)) % 2 == 0][:2]
tx_flags(i, address, flags) ==
  Prefix(SelectSeq(flags, LAMBDA f : (i + Len(address)) % 2 = 0), 2)

\* the list comprehension over range(6); element k is transaction i = k - 1
synth_txs(address, chain, flags) ==
  [k \in 1..TxCount |->
     LET i == k - 1
     IN  [ txid         |-> << "d","e","m","o","-", Digit(i), "-" >> \o Prefix(address, 6),
           from_address |-> IF i % 2 = 0 THEN address ELSE peer(i),
           to_address   |-> IF i % 2 = 0 THEN peer(i) ELSE address,
           amount       |-> tx_amount(i),
           symbol       |-> "ETH",
           chain        |-> chain,
           flags        |-> tx_flags(i, address, flags) ] ]

(***************************************************************************)
(* Classification and recommendation of generate_report.                   *)
(***************************************************************************)
\* variant: thresholds compared with <
classification_strict(score) ==
  IF score < 20 THEN "Safe"
  ELSE IF score < 50 THEN "Moderate Risk"
  ELSE IF score < 70 THEN "High Risk"
  ELSE "Extreme Risk"

classification(score) ==
  IF score <= 20 THEN "Safe"
  ELSE IF score <= 50 THEN "Moderate Risk"
  ELSE IF score <= 70 THEN "High Risk"
  ELSE "Extreme Risk"

recommendation(score) ==
  IF score <= 20 THEN "No restrictions"
  ELSE IF score <= 50 THEN "Manual review needed"
  ELSE IF score <= 70 THEN "Freeze transactions and notify authorities"
  ELSE "Block immediately and initiate legal action"

\* the report dict; the summary keeps the values its f-string embeds
report_record(address, chain, score) ==
  [ address    |-> address,
    chain      |-> chain,
    summary    |-> [ address        |-> address,
                     chain          |-> chain,
                     classification |-> classification(score),
                     score          |-> score ],
    risk_score |-> score,
    details    |-> [ recommendation |-> recommendation(score) ] ]

(***************************************************************************)
(* The document store (database.create_document, database.get_documents).  *)
(* A collection is the sequence of its documents in insertion order.       *)
(***************************************************************************)
\* fire-and-forget insert
create_document(coll, doc) == Append(coll, doc)

\* get_documents(coll, {"address": address}, limit=1): the result lists the
\* store may return; which matching document comes first is the store's
\* own ordering
get_documents(coll, address) ==
  IF \E i \in 1..Len(coll) : coll[i].address = address
  THEN { << coll[i] >> : i \in { j \in 1..Len(coll) : coll[j].address = address } }
  ELSE { << >> }

(***************************************************************************)
(* Pieces of the two handlers.                                             *)
(***************************************************************************)
\* variant: the address used untrimmed
clean_address_raw(raw) == raw

\* payload.address.strip()
clean_address(raw) == strip(raw)

\* `if not address`
is_missing(address) == address = << >>

\* variant: the exception is left to propagate
on_persist_error_raise == "raise"

\* `except Exception: pass` around every call of the store
on_persist_error == "pass"

\* the document trace_wallet stores in "wallet"
wallet_record(address, chain, risk) ==
  [ address |-> address, chain |-> chain, risk_score |-> risk ]

\* the dict trace_wallet returns
trace_response(address, chain, risk, flags, txs) ==
  [ address      |-> address,
    chain        |-> chain,
    risk_score   |-> risk,
    flags        |-> flags,
    transactions |-> txs ]

\* variant: the trace run whatever the lookup returned
needs_trace_always(docs) == TRUE

\* `if docs: ... else:` of generate_report: the else branch runs the trace
needs_trace(docs) == docs = << >>

\* variant: a key the document lacks, so the default 0
stored_score_wrongkey(docs) == 0

\* int(latest.get("risk_score", 0)) with latest = docs[0]
stored_score(docs) == docs[1].risk_score

\* variant: the default 0 instead of the traced score
fallback_score_default(body) == 0

\* resp["risk_score"] of the nested trace
fallback_score(body) == body.risk_score

(***************************************************************************)
(* State.                                                                  *)
(***************************************************************************)
VARIABLES
  pc,       \* where each worker stands in the handler it runs
  loc,      \* the local variables of the handler(s) a worker runs
  resp,     \* the HTTP response of the worker's current request
  req,      \* per request: calls of the store made, failed, documents added
  wallet,   \* the "wallet" collection
  report,   \* the "report" collection
  started,  \* requests issued so far
  probe     \* argument and result of a direct call of compute_risk

vars == << pc, loc, resp, req, wallet, report, started, probe >>

Procs == { "w1", "w2" }

Chains == { "ethereum", "bitcoin" }

NoScore == 0 - 1

NoResp == [ status |-> 0 ]

\* HTTPException(status_code=400, detail="Address is required")
Error400 == [ status |-> 400, detail |-> "Address is required" ]

\* an exception no handler catches
Error500 == [ status |-> 500 ]

Ok200(body) == [ status |-> 200, body |-> body ]

NoReq ==
  [ get |-> 0, put_wallet |-> 0, put_report |-> 0, failures |-> 0,
    wrote_wallet |-> 0, wrote_report |-> 0, lookup |-> "none" ]

NoProbe == [ flags |-> << >>, out |-> NoScore, done |-> FALSE ]

\* the frame of a request that has just arrived
NewFrame(endpoint, payload) ==
  [ endpoint |-> endpoint,
    payload  |-> payload,
    tpayload |-> payload,
    nested   |-> FALSE,
    address  |-> << >>,
    flags    |-> << >>,
    risk     |-> NoScore,
    txs      |-> << >>,
    raddress |-> << >>,
    score    |-> NoScore ]

IdleFrame == NewFrame("none", [ address |-> << >>, chain |-> "ethereum" ])

Entry(endpoint) == IF endpoint = "trace" THEN "trace_entry" ELSE "report_entry"

(***************************************************************************)
(* trace_wallet.  A handler is cut at its calls of the store, the only     *)
(* state requests share: TraceEntry runs it up to create_document,         *)
(* TracePersist is that call and the return.                               *)
(***************************************************************************)
TraceEntry(p) ==
  /\ pc[p] = "trace_entry"
  /\ LET address == clean_address(loc[p].tpayload.address)
         chain   == loc[p].tpayload.chain
         flags   == extract_flags(address)
         risk    == compute_risk(flags)
         txs     == synth_txs(address, chain, flags)
     IN  IF is_missing(address)
         THEN /\ resp' = [resp EXCEPT ![p] = Error400]
              /\ pc' = [pc EXCEPT ![p] = "done"]
              /\ UNCHANGED loc
         ELSE /\ loc' = [loc EXCEPT ![p].address = address,
                                    ![p].flags = flags,
                                    ![p].risk = risk,
                                    ![p].txs = txs]
              /\ pc' = [pc EXCEPT ![p] = "trace_persist"]
              /\ UNCHANGED resp
  /\ UNCHANGED << req, wallet, report, started, probe >>

TracePersist(p) ==
  /\ pc[p] = "trace_persist"
  /\ \E ok \in BOOLEAN :
       LET l    == loc[p]
           doc  == wallet_record(l.address, l.tpayload.chain, l.risk)
           body == trace_response(l.address, l.tpayload.chain, l.risk, l.flags, l.txs)
       IN  /\ wallet' = IF ok THEN create_document(wallet, doc) ELSE wallet
           /\ req' = [req EXCEPT ![p].put_wallet = @ + 1,
                                 ![p].failures = @ + (IF ok THEN 0 ELSE 1),
                                 ![p].wrote_wallet = @ + (IF ok THEN 1 ELSE 0)]
           /\ IF ~ok /\ on_persist_error # "pass"
              THEN /\ resp' = [resp EXCEPT ![p] = Error500]
                   /\ pc' = [pc EXCEPT ![p] = "done"]
                   /\ UNCHANGED loc
              ELSE IF l.nested
              THEN /\ loc' = [loc EXCEPT ![p].score = fallback_score(body)]
                   /\ pc' = [pc EXCEPT ![p] = "report_persist"]
                   /\ UNCHANGED resp
              ELSE /\ resp' = [resp EXCEPT ![p] = Ok200(body)]
                   /\ pc' = [pc EXCEPT ![p] = "done"]
                   /\ UNCHANGED loc
  /\ UNCHANGED << report, started, probe >>

(***************************************************************************)
(* generate_report: ReportEntry validates, ReportLookup is get_documents   *)
(* and the choice between the stored score and the nested trace (which     *)
(* runs TraceEntry and TracePersist in the same worker), ReportPersist     *)
(* builds the report, stores it and returns it.                            *)
(***************************************************************************)
ReportEntry(p) ==
  /\ pc[p] = "report_entry"
  /\ LET address == clean_address(loc[p].payload.address)
     IN  IF is_missing(address)
         THEN /\ resp' = [resp EXCEPT ![p] = Error400]
              /\ pc' = [pc EXCEPT ![p] = "done"]
              /\ UNCHANGED loc
         ELSE /\ loc' = [loc EXCEPT ![p].raddress = address]
              /\ pc' = [pc EXCEPT ![p] = "report_lookup"]
              /\ UNCHANGED resp
  /\ UNCHANGED << req, wallet, report, started, probe >>

ReportLookup(p) ==
  /\ pc[p] = "report_lookup"
  /\ \E ok \in BOOLEAN :
       \E docs \in (IF ok THEN get_documents(wallet, loc[p].raddress) ELSE { << >> }) :
         /\ req' = [req EXCEPT ![p].get = @ + 1,
                               ![p].failures = @ + (IF ok THEN 0 ELSE 1),
                               ![p].lookup = IF docs = << >> THEN "miss" ELSE "hit"]
         /\ IF ~ok /\ on_persist_error # "pass"
            THEN /\ resp' = [resp EXCEPT ![p] = Error500]
                 /\ pc' = [pc EXCEPT ![p] = "done"]
                 /\ UNCHANGED loc
            ELSE IF needs_trace(docs)
            THEN /\ loc' = [loc EXCEPT
                              ![p].tpayload = [ address |-> loc[p].raddress,
                                                chain   |-> loc[p].payload.chain ],
                              ![p].nested = TRUE]
                 /\ pc' = [pc EXCEPT ![p] = "trace_entry"]
                 /\ UNCHANGED resp
            ELSE /\ loc' = [loc EXCEPT ![p].score = stored_score(docs)]
                 /\ pc' = [pc EXCEPT ![p] = "report_persist"]
                 /\ UNCHANGED resp
  /\ UNCHANGED << wallet, report, started, probe >>

ReportPersist(p) ==
  /\ pc[p] = "report_persist"
  /\ \E ok \in BOOLEAN :
       LET rep == report_record(loc[p].raddress, loc[p].payload.chain, loc[p].score)
       IN  /\ report' = IF ok THEN create_document(report, rep) ELSE report
           /\ req' = [req EXCEPT ![p].put_report = @ + 1,
                                 ![p].failures = @ + (IF ok THEN 0 ELSE 1),
                                 ![p].wrote_report = @ + (IF ok THEN 1 ELSE 0)]
           /\ IF ~ok /\ on_persist_error # "pass"
              THEN resp' = [resp EXCEPT ![p] = Error500]
              ELSE resp' = [resp EXCEPT ![p] = Ok200(rep)]
           /\ pc' = [pc EXCEPT ![p] = "done"]
  /\ UNCHANGED << loc, wallet, started, probe >>

(***************************************************************************)
(* Inputs.                                                                 *)
(***************************************************************************)
\* the addresses the clients of the running service send
A_hack    == << "0","x","D","E","A","D" >>
A_hack_sp == A_hack \o << " " >>
A_kyc     == << " ","c","o","i","n","b","a","s","e","1","2" >>
A_blank   == << " ","\t" >>

ServicePayloads ==
  { [ address |-> A_hack_sp, chain |-> "ethereum" ],
    [ address |-> A_hack_sp, chain |-> "bitcoin" ],
    [ address |-> A_kyc,     chain |-> "ethereum" ],
    [ address |-> A_blank,   chain |-> "ethereum" ] }

\* generated addresses: optional whitespace around
\* prefix, filler, keyword, suffix
Pad(n) == [i \in 1..n |-> "q"]

Prefixes ==
  { << >>, S_0xdead, << "0","x","D","E","A","D" >>, S_bc1dark }

Mids ==
  { << >>, S_mix, << "T","o","r","n","a","d","o" >>, S_mix \o S_hydra,
    S_coinbase, << "B","I","N","A","N","C","E" >>, S_bc1dark }

Suffixes ==
  { << >>, S_bad, << "B","A","D" >>, S_bad \o << "q" >> }

Wraps ==
  { << << >>, << >> >>,
    << << " " >>, << >> >>,
    << << "\t" >>, << "\n", " " >> >> }

GenAddresses ==
  { w[1] \o pre \o Pad(n) \o mid \o suf \o w[2] :
      w \in Wraps, pre \in Prefixes, n \in 0..MaxPad, mid \in Mids, suf \in Suffixes }

GenPayloads == [ address : GenAddresses, chain : Chains ]

\* flag lists for compute_risk: the seven ids and one the table lacks
FlagIds == { RISK_RULES[i].id : i \in 1..Len(RISK_RULES) } \cup { "unknown_flag" }

FlagLists == UNION { [1..n -> FlagIds] : n \in 0..MaxFlags }

\* a wallet document as the Wallet schema admits it (risk_score ge=0, le=100)
SeedDocs ==
  [ address : { strip(A_hack), strip(A_kyc) }, chain : { "ethereum" }, risk_score : 0..100 ]

(***************************************************************************)
(* Arrival of a request.                                                   *)
(***************************************************************************)
Call(p) ==
  /\ pc[p] \in { "idle", "done" }
  /\ started < MaxRequests
  /\ \E endpoint \in { "trace", "report" } :
       \E payload \in ServicePayloads :
         /\ loc' = [loc EXCEPT ![p] = NewFrame(endpoint, payload)]
         /\ pc' = [pc EXCEPT ![p] = Entry(endpoint)]
  /\ resp' = [resp EXCEPT ![p] = NoResp]
  /\ req' = [req EXCEPT ![p] = NoReq]
  /\ started' = started + 1
  /\ UNCHANGED << wallet, report, probe >>

\* a direct call of compute_risk
ApplyComputeRisk ==
  /\ ~probe.done
  /\ probe' = [probe EXCEPT !.out = compute_risk(probe.flags), !.done = TRUE]
  /\ UNCHANGED << pc, loc, resp, req, wallet, report, started >>

(***************************************************************************)
(* Specifications.                                                         *)
(***************************************************************************)
\* the service: workers take requests and run the handlers, interleaved
Init ==
  /\ pc = [p \in Procs |-> "idle"]
  /\ loc = [p \in Procs |-> IdleFrame]
  /\ resp = [p \in Procs |-> NoResp]
  /\ req = [p \in Procs |-> NoReq]
  /\ wallet = << >>
  /\ report = << >>
  /\ started = 0
  /\ probe = NoProbe

Next ==
  \E p \in Procs :
    \/ Call(p)
    \/ TraceEntry(p)
    \/ TracePersist(p)
    \/ ReportEntry(p)
    \/ ReportLookup(p)
    \/ ReportPersist(p)

Spec == Init /\ [][Next]_vars

\* one call of trace_wallet on a generated address
InitTrace ==
  /\ \E payload \in GenPayloads :
       loc = [p \in Procs |-> IF p = "w1" THEN NewFrame("trace", payload) ELSE IdleFrame]
  /\ pc = [p \in Procs |-> IF p = "w1" THEN "trace_entry" ELSE "idle"]
  /\ resp = [p \in Procs |-> NoResp]
  /\ req = [p \in Procs |-> NoReq]
  /\ wallet = << >>
  /\ report = << >>
  /\ started = MaxRequests
  /\ probe = NoProbe

NextTrace == TraceEntry("w1") \/ TracePersist("w1")

SpecTrace == InitTrace /\ [][NextTrace]_vars

\* one call of generate_report against a store that holds one wallet document
InitSeeded ==
  /\ \E payload \in ServicePayloads :
       loc = [p \in Procs |-> IF p = "w1" THEN NewFrame("report", payload) ELSE IdleFrame]
  /\ pc = [p \in Procs |-> IF p = "w1" THEN "report_entry" ELSE "idle"]
  /\ resp = [p \in Procs |-> NoResp]
  /\ req = [p \in Procs |-> NoReq]
  /\ \E doc \in SeedDocs : wallet = << doc >>
  /\ report = << >>
  /\ started = MaxRequests
  /\ probe = NoProbe

NextSeeded ==
  \/ ReportEntry("w1")
  \/ ReportLookup("w1")
  \/ TraceEntry("w1")
  \/ TracePersist("w1")
  \/ ReportPersist("w1")

SpecSeeded == InitSeeded /\ [][NextSeeded]_vars

\* one direct call of compute_risk on a flag list
InitRisk ==
  /\ pc = [p \in Procs |-> "idle"]
  /\ loc = [p \in Procs |-> IdleFrame]
  /\ resp = [p \in Procs |-> NoResp]
  /\ req = [p \in Procs |-> NoReq]
  /\ wallet = << >>
  /\ report = << >>
  /\ started = MaxRequests
  /\ \E fl \in FlagLists : probe = [ flags |-> fl, out |-> NoScore, done |-> FALSE ]

NextRisk == ApplyComputeRisk

SpecRisk == InitRisk /\ [][NextRisk]_vars

(***************************************************************************)
(* Properties.                                                             *)
(***************************************************************************)
\* worker p has returned from a call of `endpoint` with HTTP 200
Returned(p, endpoint) ==
  /\ pc[p] = "done"
  /\ loc[p].endpoint = endpoint
  /\ resp[p].status = 200

\* every raw address a request of any specification can carry
RawAddresses ==
  { pl.address : pl \in ServicePayloads } \cup GenAddresses \cup { << >> }

\* address.strip() of every raw address, tabulated
Trimmed == [raw \in RawAddresses |-> strip(raw)]

\* the trimmed address of the request worker p runs
TrimmedAddress(p) == Trimmed[loc[p].payload.address]

\* the score trace_wallet computes for a trimmed address
TraceScore(address) == compute_risk(extract_flags(address))

\* TraceScore of the trimmed addresses the service is sent, tabulated
ServiceScore ==
  [a \in { strip(pl.address) : pl \in ServicePayloads } \ { << >> } |-> TraceScore(a)]

Range(s) == { s[i] : i \in 1..Len(s) }

\* the sum of f[x] over the x in S
RECURSIVE SumOver(_, _)
SumOver(S, f) ==
  IF S = { } THEN 0
  ELSE LET x == CHOOSE y \in S : TRUE
       IN  f[x] + SumOver(S \ { x }, f)

RuleIdx == 1..Len(RISK_RULES)

Occurrences(id, flags) == Cardinality({ i \in 1..Len(flags) : flags[i] = id })

\* C1: whenever trace_wallet returns for an address that is non-empty after
\* trimming, it returns HTTP 200 with an integer risk_score in 0..100,
\* whichever flags the address triggers.
C1_RiskScoreInRange ==
  \A p \in Procs :
    (pc[p] = "done" /\ loc[p].endpoint = "trace" /\ TrimmedAddress(p) # << >>)
      => /\ resp[p].status = 200
         /\ resp[p].body.risk_score \in 0..100

\* a returned trace whose address triggers only the two negative-impact flags
C1_Witness ==
  \E p \in Procs :
    /\ Returned(p, "trace")
    /\ resp[p].body.flags = << "kyc_exchange", "hodl" >>
    /\ resp[p].body.risk_score = 0

\* C2 as stated: compute_risk(flags) is the clamped sum of the impacts of the
\* distinct known ids in the list, a repeated id counted once.
C2_DistinctIdsCountedOnce ==
  probe.done =>
    probe.out =
      clamp(SumOver({ i \in RuleIdx : RISK_RULES[i].id \in Range(probe.flags) },
                    [i \in RuleIdx |-> RISK_RULES[i].impact]),
            0, 100)

\* C2 amended: compute_risk(flags) is the sum of the impacts of the known ids
\* in the list, an id counted once for each time it appears, unknown ids
\* counting nothing, clamped once to 0..100; the empty list gives 0.
C2_EveryOccurrenceCounted ==
  probe.done =>
    /\ probe.out =
         clamp(SumOver(RuleIdx,
                       [i \in RuleIdx |->
                          Occurrences(RISK_RULES[i].id, probe.flags)
                            * RISK_RULES[i].impact]),
               0, 100)
    /\ (probe.flags = << >> => probe.out = 0)

\* compute_risk has been applied to a list that repeats a known id
C2_Witness ==
  /\ probe.done
  /\ probe.flags = << "large_tx", "unknown_flag", "large_tx" >>
  /\ probe.out = 60

FlagOrder ==
  << "hack_proceeds", "mixer_use", "darknet_link", "large_tx",
     "structuring", "kyc_exchange", "hodl" >>

Position(id) == CHOOSE i \in 1..Len(FlagOrder) : FlagOrder[i] = id

\* the rule of an indicator; the text rules read the lowercased address,
\* the length rules the length of the trimmed address
RuleHolds(id, a) ==
  LET l == lower(a)
  IN  CASE id = "hack_proceeds" -> endswith(l, S_bad) \/ startswith(l, S_0xdead)
        [] id = "mixer_use"     -> contains(l, S_mix) \/ contains(l, S_tornado)
        [] id = "darknet_link"  -> startswith(l, S_bc1dark) \/ contains(l, S_hydra)
        [] id = "large_tx"      -> Len(a) % 7 = 0
        [] id = "structuring"   -> Len(a) % 5 = 0
        [] id = "kyc_exchange"  -> contains(l, S_coinbase) \/ contains(l, S_binance)
        [] id = "hodl"          -> Len(a) % 11 = 0

\* C3: the flags trace_wallet returns for a trimmed non-empty address are
\* exactly the indicator ids whose rule holds for it, each once, in the
\* order hack_proceeds, mixer_use, darknet_link, large_tx, structuring,
\* kyc_exchange, hodl.
C3_FlagsMatchRules ==
  \A p \in Procs :
    Returned(p, "trace") =>
      LET a  == TrimmedAddress(p)
          fl == resp[p].body.flags
      IN  /\ \A i \in 1..Len(fl) : fl[i] \in Range(FlagOrder)
          /\ \A id \in Range(FlagOrder) : (id \in Range(fl)) <=> RuleHolds(id, a)
          /\ \A i, j \in 1..Len(fl) : i < j => Position(fl[i]) < Position(fl[j])

\* a returned trace of a 35-character address with an upper-case 0xDEAD
\* prefix: hack_proceeds, large_tx and structuring, in that order
C3_Witness ==
  \E p \in Procs :
    /\ Returned(p, "trace")
    /\ Len(TrimmedAddress(p)) = 35
    /\ Prefix(TrimmedAddress(p), 6) = << "0","x","D","E","A","D" >>
    /\ resp[p].body.flags = << "hack_proceeds", "large_tx", "structuring" >>

\* the rows of the classification table
TierTable ==
  { [ lo |-> 0,  hi |-> 20,  tier |-> "Safe",
      rec |-> "No restrictions" ],
    [ lo |-> 21, hi |-> 50,  tier |-> "Moderate Risk",
      rec |-> "Manual review needed" ],
    [ lo |-> 51, hi |-> 70,  tier |-> "High Risk",
      rec |-> "Freeze transactions and notify authorities" ],
    [ lo |-> 71, hi |-> 100, tier |-> "Extreme Risk",
      rec |-> "Block immediately and initiate legal action" ] }

\* C4: for every score in 0..100 generate_report works with, the tier in the
\* summary and the recommendation in the details are those of the one row
\* of the table whose range holds the score.
C4_TierAndRecommendationSameRow ==
  \A p \in Procs :
    (Returned(p, "report") /\ resp[p].body.risk_score \in 0..100) =>
      LET s    == resp[p].body.risk_score
          rows == { r \in TierTable : r.lo <= s /\ s <= r.hi }
      IN  /\ Cardinality(rows) = 1
          /\ \A r \in rows :
               /\ resp[p].body.summary.classification = r.tier
               /\ resp[p].body.details.recommendation = r.rec
          /\ resp[p].body.summary.score = s

\* a returned report for a stored score of 21, the lowest Moderate Risk score
C4_Witness ==
  \E p \in Procs :
    /\ Returned(p, "report")
    /\ req[p].lookup = "hit"
    /\ resp[p].body.risk_score = 21
    /\ resp[p].body.summary.classification = "Moderate Risk"

\* C5: a request whose address is empty after trimming is answered with the
\* HTTP 400 error by the step that validates it, and that step computes
\* nothing, calls the store not at all and leaves both collections as they
\* were; such a request never gets past validation.
C5_BlankAddressRejected ==
  [][ \A p \in Procs :
        /\ ( /\ pc[p] \in { "trace_entry", "report_entry" }
             /\ TrimmedAddress(p) = << >>
             /\ pc'[p] # pc[p] )
           => /\ pc'[p] = "done"
              /\ resp'[p] = Error400
              /\ loc'[p] = loc[p]
              /\ req'[p] = NoReq
              /\ wallet' = wallet
              /\ report' = report
        /\ ( loc'[p].endpoint # "none" /\ Trimmed[loc'[p].payload.address] = << >> )
           => /\ pc'[p] \in { "trace_entry", "report_entry", "done" }
              /\ loc'[p].flags = << >>
              /\ loc'[p].risk = NoScore
              /\ loc'[p].score = NoScore
              /\ req'[p] = NoReq
              /\ (pc'[p] = "done" => resp'[p] = Error400)
    ]_vars

\* a whitespace-only request has been rejected while the store holds a
\* wallet document
C5_Witness ==
  \E p \in Procs :
    /\ pc[p] = "done"
    /\ loc[p].endpoint = "report"
    /\ loc[p].payload.address = A_blank
    /\ resp[p] = Error400
    /\ Len(wallet) > 0

\* C6: a report whose lookup returned no wallet document ran the trace
\* (with its one attempt to store a wallet document) and carries the
\* risk_score trace_wallet computes for the address, the one any returned
\* trace_wallet call for that address carries.
C6_FallbackScoreIsTraceScore ==
  \A p \in Procs :
    (Returned(p, "report") /\ req[p].lookup = "miss") =>
      /\ resp[p].body.risk_score = ServiceScore[TrimmedAddress(p)]
      /\ req[p].put_wallet = 1
      /\ \A q \in Procs :
           (Returned(q, "trace") /\ TrimmedAddress(q) = TrimmedAddress(p))
             => resp[q].body.risk_score = resp[p].body.risk_score

\* a report that fell back to the trace, beside a returned trace of the
\* same address and chain
C6_Witness ==
  \E p, q \in Procs :
    /\ Returned(p, "report")
    /\ req[p].lookup = "miss"
    /\ Returned(q, "trace")
    /\ loc[q].payload = loc[p].payload
    /\ resp[p].body.risk_score = 90

\* what the handlers return for a valid payload when every call of the
\* store succeeds (the store holding only documents this service wrote)
ExpectedTraceOf(payload) ==
  LET a == strip(payload.address)
  IN  [ address |-> a, chain |-> payload.chain,
        risk_score |-> TraceScore(a), flags |-> extract_flags(a) ]

ExpectedReportOf(payload) ==
  LET a == strip(payload.address)
      s == TraceScore(a)
  IN  [ address |-> a, chain |-> payload.chain, risk_score |-> s,
        tier |-> classification(s), recommendation |-> recommendation(s) ]

\* the two, tabulated over the payloads the service is sent
ExpectedTrace == [pl \in ServicePayloads |-> ExpectedTraceOf(pl)]

ExpectedReport == [pl \in ServicePayloads |-> ExpectedReportOf(pl)]

\* C7: whichever calls of the store fail, a request with a valid address
\* returns HTTP 200 with the address, chain, risk_score, flags (and, for a
\* report, tier and recommendation) it returns when none fails; no response
\* is ever an unhandled error and no call of the store is made twice in a
\* request.
C7_PersistenceFailuresInvisible ==
  \A p \in Procs :
    /\ resp[p].status \in { 0, 200, 400 }
    /\ req[p].get <= 1 /\ req[p].put_wallet <= 1 /\ req[p].put_report <= 1
    /\ (pc[p] = "done" /\ loc[p].endpoint = "trace" /\ TrimmedAddress(p) # << >>)
         => /\ resp[p].status = 200
            /\ [ address |-> resp[p].body.address, chain |-> resp[p].body.chain,
                 risk_score |-> resp[p].body.risk_score,
                 flags |-> resp[p].body.flags ] = ExpectedTrace[loc[p].payload]
    /\ (pc[p] = "done" /\ loc[p].endpoint = "report" /\ TrimmedAddress(p) # << >>)
         => /\ resp[p].status = 200
            /\ [ address |-> resp[p].body.address, chain |-> resp[p].body.chain,
                 risk_score |-> resp[p].body.risk_score,
                 tier |-> resp[p].body.summary.classification,
                 recommendation |-> resp[p].body.details.recommendation ]
                 = ExpectedReport[loc[p].payload]

\* a report returned although get_documents and both create_document calls
\* failed
C7_Witness ==
  \E p \in Procs :
    /\ Returned(p, "report")
    /\ req[p].failures = 3
    /\ Len(wallet) = 0 /\ Len(report) = 0

\* C8: trace_wallet returns 6 transactions, the i-th (from 0) with amount
\* 0.5 * (i + 1): 0.5, 1.0, 1.5, 2.0, 2.5, 3.0 (here in ten-thousandths),
\* whatever the address, the chain and the flags.
C8_SixTransactionsFixedAmounts ==
  \A p \in Procs :
    Returned(p, "trace") =>
      LET txs == resp[p].body.transactions
      IN  /\ Len(txs) = 6
          /\ \A k \in 1..Len(txs) : 2 * txs[k].amount = k * 10000
          /\ << txs[1].amount, txs[2].amount, txs[3].amount,
                txs[4].amount, txs[5].amount, txs[6].amount >>
               = << 5000, 10000, 15000, 20000, 25000, 30000 >>

\* a returned bitcoin trace whose address triggers flags
C8_Witness ==
  \E p \in Procs :
    /\ Returned(p, "trace")
    /\ resp[p].body.chain = "bitcoin"
    /\ Len(resp[p].body.flags) >= 3
    /\ Len(resp[p].body.transactions) = 6

\* C9: every step leaves the documents already in the two collections as
\* they are and adds at most one; a wallet document is added only by the
\* create_document step of a trace, a report document only by that of a
\* report; a trace request adds at most one wallet document and no report
\* document; a report request adds at most one report document, and a wallet
\* document (at most one) only if its lookup returned none.
C9_StoreOnlyGrows ==
  [][ /\ Len(wallet') \in { Len(wallet), Len(wallet) + 1 }
      /\ SubSeq(wallet', 1, Len(wallet)) = wallet
      /\ Len(report') \in { Len(report), Len(report) + 1 }
      /\ SubSeq(report', 1, Len(report)) = report
      /\ Len(wallet') > Len(wallet)
           => \E p \in Procs : pc[p] = "trace_persist" /\ pc'[p] # pc[p]
      /\ Len(report') > Len(report)
           => \E p \in Procs : pc[p] = "report_persist" /\ pc'[p] # pc[p]
      /\ \A p \in Procs :
           /\ loc'[p].endpoint = "trace"
                => req'[p].wrote_wallet <= 1 /\ req'[p].wrote_report = 0
           /\ loc'[p].endpoint = "report"
                => /\ req'[p].wrote_report <= 1
                   /\ req'[p].wrote_wallet <= 1
                   /\ (req'[p].put_wallet > 0 => req'[p].lookup = "miss")
    ]_vars

\* a report that found a wallet document: it added its report document and
\* no wallet document
C9_Witness ==
  \E p \in Procs :
    /\ Returned(p, "report")
    /\ req[p].lookup = "hit"
    /\ req[p].wrote_report = 1
    /\ req[p].wrote_wallet = 0
    /\ Len(wallet) = 2
    /\ Len(report) = 1

\* C10: with the wallet collection written by this service alone, under
\* every interleaving every wallet document carries the score trace_wallet
\* computes for its address, so all documents of an address agree, and every
\* report (returned or stored) carries that score, whichever document the
\* lookup returned and whichever chains the earlier calls used.
C10_OneScorePerAddress ==
  /\ \A i \in 1..Len(wallet) :
       /\ wallet[i].risk_score = ServiceScore[wallet[i].address]
       /\ \A j \in 1..Len(wallet) :
            wallet[j].address = wallet[i].address
              => wallet[j].risk_score = wallet[i].risk_score
  /\ \A i \in 1..Len(report) :
       report[i].risk_score = ServiceScore[report[i].address]
  /\ \A p \in Procs :
       Returned(p, "report")
         => resp[p].body.risk_score = ServiceScore[TrimmedAddress(p)]

\* two racing traces of one address on different chains have both been
\* stored, and a report for the address has read one of the two
C10_Witness ==
  \E p \in Procs :
    /\ Returned(p, "report")
    /\ req[p].lookup = "hit"
    /\ Len(wallet) = 2
    /\ wallet[1].address = wallet[2].address
    /\ wallet[1].chain # wallet[2].chain
    /\ resp[p].body.address = wallet[1].address

====
